---- MODULE Spec2Model ----
(***************************************************************************)
(* A model of the in-memory todo store of golem-todo-list                  *)
(* (lib/src/todos/mod.rs and the value types it uses).                     *)
(*                                                                         *)
(* Strings are sequences of character codes (ASCII), so that trimming,     *)
(* length, substring search, lexicographic comparison and date parsing are *)
(* computed, not assumed.  Option<T> is a sequence of length 0 or 1.       *)
(***************************************************************************)
EXTENDS Integers, Sequences, FiniteSets, TLC

VARIABLES todos, issued, now, result, scan

vars == <<todos, issued, now, result, scan>>

----------------------------------------------------------------------------
(* Bounds of the model *)

\* the number of records added in one behaviour of Spec
MaxTodos == 1

\* the number of records added in one behaviour of SpecStore
MaxStoreTodos == 2

\* how many characters over MAX_LEN the titles of SpecTitle go
MaxOver == 2

\* the number of records added in one behaviour of SpecSearch
MaxSearchTodos == 3

\* the last value of the wall clock, in seconds after the start
MaxTime == 1

\* the number of records added in one behaviour of SpecBulk
MaxBulk == 102

\* the number of records added in one behaviour of SpecScan
MaxScan == 11

\* the largest small value tried as a raw limit
MaxLimitInput == 110

----------------------------------------------------------------------------
(* Program constants *)

QUERY_DEFAULT_LIMIT == 10

QUERY_MAX_LIMIT == 100

MAX_LEN == 30

----------------------------------------------------------------------------
(* Option<T> *)

None == <<>>

Some(x) == <<x>>

IsSome(o) == o # <<>>

Unwrap(o) == o[1]

(* AppResult<T> *)

Ok(v) == [ok |-> TRUE, val |-> v, err |-> [kind |-> "none"]]

Err(e) == [ok |-> FALSE, val |-> <<>>, err |-> e]

(* AppError: the variants the store and its value types report *)

\* "%Y-%m-%d %H"
USER_DATE_TIME_FORMAT == "%Y-%m-%d %H"

DateTimeParseError(input, expected_format) ==
    [kind |-> "DateTimeParseError", input |-> input,
     expected_format |-> expected_format]

EmptyTodoTitle == [kind |-> "EmptyTodoTitle"]

TooLongTodoTitle(input, expected_len) ==
    [kind |-> "TooLongTodoTitle", input |-> input, expected_len |-> expected_len]

TodoNotFound(id) == [kind |-> "TodoNotFound", id |-> id]

UpdateHasNoChanges == [kind |-> "UpdateHasNoChanges"]

\* the panic of unreachable!("DEFECT: Heap in `TodoList::search` is empty.")
HeapIsEmpty == [kind |-> "panic"]

\* chrono's ParseError, which unix_time replaces by DateTimeParseError
ParseError == [kind |-> "ParseError"]

----------------------------------------------------------------------------
(* Characters and strings *)

IsWhitespace(c) == c \in {9, 10, 11, 12, 13, 32}

IsDigit(c) == c \in 48..57

RECURSIVE TrimStart(_)
TrimStart(s) ==
    IF s # <<>> /\ IsWhitespace(Head(s)) THEN TrimStart(Tail(s)) ELSE s

RECURSIVE TrimEnd(_)
TrimEnd(s) ==
    IF s # <<>> /\ IsWhitespace(s[Len(s)])
    THEN TrimEnd(SubSeq(s, 1, Len(s) - 1))
    ELSE s

\* str::trim
Trim(s) == TrimEnd(TrimStart(s))

\* str::contains: the keyword occurs as a contiguous substring
Contains(s, k) ==
    \E i \in 0..(Len(s) - Len(k)) : SubSeq(s, i + 1, i + Len(k)) = k

\* Ord for String: lexicographic by bytes; -1, 0 or 1
RECURSIVE StrCmp(_, _)
StrCmp(a, b) ==
    IF a = <<>> /\ b = <<>> THEN 0
    ELSE IF a = <<>> THEN -1
    ELSE IF b = <<>> THEN 1
    ELSE IF Head(a) < Head(b) THEN -1
    ELSE IF Head(a) > Head(b) THEN 1
    ELSE StrCmp(Tail(a), Tail(b))

\* a string of n letters 'a'
RECURSIVE Repeat(_, _)
Repeat(c, n) == IF n = 0 THEN <<>> ELSE <<c>> \o Repeat(c, n - 1)

----------------------------------------------------------------------------
(* Title (title.rs) *)

TitleNew_notrim(raw) == raw

\* Title::new: nutype sanitize(trim)
TitleNew(raw) == Trim(raw)

Validated_offbyone(title) ==
    IF Len(title) < 1 THEN Err(EmptyTodoTitle)
    ELSE IF Len(title) >= MAX_LEN THEN Err(TooLongTodoTitle(title, MAX_LEN))
    ELSE Ok(title)

\* Title::validated
Validated(title) ==
    IF Len(title) < 1 THEN Err(EmptyTodoTitle)
    ELSE IF Len(title) > MAX_LEN THEN Err(TooLongTodoTitle(title, MAX_LEN))
    ELSE Ok(title)

----------------------------------------------------------------------------
(* OptionalDeadlineInput (deadline.rs) *)

\* an i64 number of seconds, days * 86400 + secs with secs in 0..86399. The two
\* operands of NaiveDateTime::timestamp are kept apart: their sum is beyond the
\* 32-bit integers TLC computes with ("2222-12-31 23" is 7983874800).
Timestamp(days, secs) == [days |-> days, secs |-> secs]

\* Ord for i64, on two such numbers of seconds: -1, 0 or 1
TimestampCmp(a, b) ==
    IF a.days < b.days THEN -1
    ELSE IF a.days > b.days THEN 1
    ELSE IF a.secs < b.secs THEN -1
    ELSE IF a.secs > b.secs THEN 1
    ELSE 0

\* NaiveDate::MIN.year() and NaiveDate::MAX.year()
MIN_YEAR == -262143

MAX_YEAR == 262142

\* the day of 1970-01-01, counting 0001-01-01 as day 1
UNIX_EPOCH_DAY == 719163

\* a number past every year of NaiveDate, which stands for all the larger ones: as
\* a year each of them makes the parse fail (in scan::number beyond i64, in
\* Parsed::set_year beyond i32, in NaiveDate::from_ymd_opt otherwise)
Saturated(n) == IF n > 1000000 THEN 1000000 ELSE n

\* the digits of s from position i on, at most max of them, added to the number
\* acc read from position start on: the number, and the position after it
RECURSIVE ScanDigits(_, _, _, _, _)
ScanDigits(s, start, i, max, acc) ==
    IF max > 0 /\ i <= Len(s) /\ IsDigit(s[i])
    THEN ScanDigits(s, start, i + 1, max - 1, Saturated(acc * 10 + (s[i] - 48)))
    ELSE [ok |-> i > start, val |-> acc, at |-> i]

\* chrono's scan::number(s[i..], 1, max): between 1 and max digits, as many as
\* there are; after a sign max is usize::MAX, the length of s here
ScanNumber(s, i, max) == ScanDigits(s, i, i, max, 0)

\* scan::number(s[j..], 1, 2), written out for its three outcomes: no digit, one
\* digit, two digits
ScanNumber2(s, j) ==
    IF j > Len(s) \/ s[j] < 48 \/ s[j] > 57
    THEN [ok |-> FALSE, val |-> 0, at |-> j]
    ELSE IF j + 1 > Len(s) \/ s[j + 1] < 48 \/ s[j + 1] > 57
    THEN [ok |-> TRUE, val |-> s[j] - 48, at |-> j + 1]
    ELSE [ok |-> TRUE, val |-> (s[j] - 48) * 10 + (s[j + 1] - 48), at |-> j + 2]

\* scan::number(s[j..], 1, 4), written out for no digit and one to four digits
ScanNumber4(s, j) ==
    IF j > Len(s) \/ s[j] < 48 \/ s[j] > 57
    THEN [ok |-> FALSE, val |-> 0, at |-> j]
    ELSE IF j + 1 > Len(s) \/ s[j + 1] < 48 \/ s[j + 1] > 57
    THEN [ok |-> TRUE, val |-> s[j] - 48, at |-> j + 1]
    ELSE IF j + 2 > Len(s) \/ s[j + 2] < 48 \/ s[j + 2] > 57
    THEN [ok |-> TRUE, val |-> (s[j] - 48) * 10 + (s[j + 1] - 48), at |-> j + 2]
    ELSE IF j + 3 > Len(s) \/ s[j + 3] < 48 \/ s[j + 3] > 57
    THEN [ok |-> TRUE,
          val |-> (s[j] - 48) * 100 + (s[j + 1] - 48) * 10 + (s[j + 2] - 48),
          at |-> j + 3]
    ELSE [ok |-> TRUE,
          val |-> (s[j] - 48) * 1000 + (s[j + 1] - 48) * 100
                  + (s[j + 2] - 48) * 10 + (s[j + 3] - 48),
          at |-> j + 4]

\* 0i64.checked_sub(v) on the number scanned after a '-'
Negated(n) == [n EXCEPT !.val = 0 - n.val]

\* str::trim_start on s[i..]: the position of the first character that is not
\* white space
RECURSIVE SkipSpace(_, _)
SkipSpace(s, i) ==
    IF i <= Len(s) /\ IsWhitespace(s[i]) THEN SkipSpace(s, i + 1) ELSE i

\* Item::Numeric(Year) at a position that holds no white space: a sign and any
\* number of digits, or no sign and at most 4 digits
ScanSignedYear(s, i) ==
    IF i <= Len(s) /\ s[i] = 45 THEN Negated(ScanNumber(s, i + 1, Len(s)))
    ELSE IF i <= Len(s) /\ s[i] = 43 THEN ScanNumber(s, i + 1, Len(s))
    ELSE ScanNumber4(s, i)

\* Item::Numeric(Year): leading white space is skipped
ScanYear(s, i) == ScanSignedYear(s, SkipSpace(s, i))

\* Item::Numeric(Month, Day, Hour, Minute, Second): white space skipped, then
\* 1 or 2 digits
ScanField(s, i) == ScanNumber2(s, SkipSpace(s, i))

\* Item::Literal of one character: whether s holds c at position i
ScanLiteral(s, i, c) == i >= 1 /\ i <= Len(s) /\ s[i] = c

\* the proleptic Gregorian calendar, year 0 included
IsLeap(y) == (y % 4 = 0 /\ y % 100 # 0) \/ y % 400 = 0

DaysInMonth(y, m) ==
    IF m = 2 THEN (IF IsLeap(y) THEN 29 ELSE 28)
    ELSE IF m \in {4, 6, 9, 11} THEN 30
    ELSE 31

RECURSIVE DaysBeforeMonth(_, _)
DaysBeforeMonth(y, m) ==
    IF m <= 1 THEN 0
    ELSE DaysBeforeMonth(y, m - 1) + DaysInMonth(y, m - 1)

\* NaiveDate::num_days_from_ce: 0001-01-01 is day 1
NumDaysFromCe(y, m, d) ==
    365 * (y - 1) + ((y - 1) \div 4) - ((y - 1) \div 100) + ((y - 1) \div 400)
    + DaysBeforeMonth(y, m) + d

\* Parsed::to_naive_datetime_with_offset(0) and NaiveDateTime::timestamp: the
\* fields in their ranges make a date and a time, counted from the epoch; second
\* 60 is a leap second, kept as second 59 and a fraction that timestamp() drops
ToTimestamp(year, month, day, hour, minute, second) ==
    IF /\ year \in MIN_YEAR..MAX_YEAR
       /\ month \in 1..12
       /\ day \in 1..DaysInMonth(year, month)
       /\ hour \in 0..23
       /\ minute \in 0..59
       /\ second \in 0..60
    THEN Ok(Timestamp(NumDaysFromCe(year, month, day) - UNIX_EPOCH_DAY,
                      hour * 3600 + minute * 60
                      + (IF second = 60 THEN 59 ELSE second)))
    ELSE Err(ParseError)

\* format::parse on the items of "%Y-%m-%d %H:%M:%S", each from the position the
\* one before left: after the second nothing may be left over
ParseAfterSecond(s, year, month, day, hour, minute, second) ==
    IF second.ok /\ second.at > Len(s)
    THEN ToTimestamp(year, month, day, hour, minute, second.val)
    ELSE Err(ParseError)

\* after the minute: ':' and the second
ParseAfterMinute(s, year, month, day, hour, minute) ==
    IF minute.ok /\ ScanLiteral(s, minute.at, 58)
    THEN ParseAfterSecond(s, year, month, day, hour, minute.val,
                          ScanField(s, minute.at + 1))
    ELSE Err(ParseError)

\* after the hour: ':' and the minute
ParseAfterHour(s, year, month, day, hour) ==
    IF hour.ok /\ ScanLiteral(s, hour.at, 58)
    THEN ParseAfterMinute(s, year, month, day, hour.val, ScanField(s, hour.at + 1))
    ELSE Err(ParseError)

\* after the day: a space, which is any white space, none included, and which
\* the hour skips as every number does; then the hour
ParseAfterDay(s, year, month, day) ==
    IF day.ok
    THEN ParseAfterHour(s, year, month, day.val, ScanField(s, day.at))
    ELSE Err(ParseError)

\* after the month: '-' and the day
ParseAfterMonth(s, year, month) ==
    IF month.ok /\ ScanLiteral(s, month.at, 45)
    THEN ParseAfterDay(s, year, month.val, ScanField(s, month.at + 1))
    ELSE Err(ParseError)

\* after the year: '-' and the month
ParseAfterYear(s, year) ==
    IF year.ok /\ ScanLiteral(s, year.at, 45)
    THEN ParseAfterMonth(s, year.val, ScanField(s, year.at + 1))
    ELSE Err(ParseError)

\* format::parse(s, "%Y-%m-%d %H:%M:%S"), from the year on
ParseFromStr(s) == ParseAfterYear(s, ScanYear(s, 1))

\* NaiveDateTime::parse_from_str(s + ":00:00", "%Y-%m-%d %H:%M:%S").timestamp()
ParseDateTime(s) == ParseFromStr(s \o <<58, 48, 48, 58, 48, 48>>)

\* OptionalDeadlineInput::is_some
DeadlineIsSome(input) == IsSome(input)

\* into_report().change_context(..)? on what chrono returned for the input s
ChangeContext(parsed, s) ==
    IF parsed.ok THEN Ok(Some(parsed.val))
    ELSE Err(DateTimeParseError(s, USER_DATE_TIME_FORMAT))

\* OptionalDeadlineInput::unix_time: AppResult<Option<UnixTime>>
UnixTime(input) ==
    IF ~IsSome(input) THEN Ok(None)
    ELSE ChangeContext(ParseDateTime(Trim(Unwrap(input))), Unwrap(input))

----------------------------------------------------------------------------
(* OptionalResultLimit (result_limit.rs) *)

LimitValidated_zero(limit) ==
    IF ~IsSome(limit) THEN Ok(QUERY_DEFAULT_LIMIT)
    ELSE IF Unwrap(limit) > QUERY_MAX_LIMIT THEN Ok(QUERY_MAX_LIMIT)
    ELSE Ok(Unwrap(limit))

LimitValidated_nodefault(limit) ==
    IF ~IsSome(limit) THEN Ok(QUERY_DEFAULT_LIMIT)
    ELSE IF Unwrap(limit) > QUERY_MAX_LIMIT THEN Ok(Unwrap(limit))
    ELSE IF Unwrap(limit) < 1 THEN Ok(QUERY_DEFAULT_LIMIT)
    ELSE Ok(Unwrap(limit))

\* OptionalResultLimit::validated; the u32 to usize conversion cannot fail
\* for a value of at most QUERY_MAX_LIMIT
LimitValidated(limit) ==
    IF ~IsSome(limit) THEN Ok(QUERY_DEFAULT_LIMIT)
    ELSE IF Unwrap(limit) > QUERY_MAX_LIMIT THEN Ok(QUERY_MAX_LIMIT)
    ELSE IF Unwrap(limit) < 1 THEN Ok(QUERY_DEFAULT_LIMIT)
    ELSE Ok(Unwrap(limit))

----------------------------------------------------------------------------
(* Priority, Status (todos/mod.rs): derived Ord is the declaration order *)

Priorities == {"Low", "Medium", "High"}

Statuses == {"InProgress", "Backlog", "Done"}

PriorityOrd(p) == CASE p = "Low" -> 0 [] p = "Medium" -> 1 [] p = "High" -> 2

StatusOrd(s) == CASE s = "InProgress" -> 0 [] s = "Backlog" -> 1 [] s = "Done" -> 2

IntCmp(a, b) == IF a < b THEN -1 ELSE IF a > b THEN 1 ELSE 0

\* Ord for Option<i64>: None is less than every Some
OptionCmp(a, b) ==
    IF ~IsSome(a) /\ ~IsSome(b) THEN 0
    ELSE IF ~IsSome(a) THEN -1
    ELSE IF ~IsSome(b) THEN 1
    ELSE TimestampCmp(Unwrap(a), Unwrap(b))

----------------------------------------------------------------------------
(* SortBy (sort_by.rs) *)

QuerySorts == {"Deadline", "Priority", "Status"}

SortCmp_prioasc(sort, a, b) ==
    IF sort = Some("Priority") THEN IntCmp(PriorityOrd(a.priority), PriorityOrd(b.priority))
    ELSE IF sort = Some("Status") THEN IntCmp(StatusOrd(a.status), StatusOrd(b.status))
    ELSE IF sort = Some("Deadline") THEN OptionCmp(b.deadline, a.deadline)
    ELSE StrCmp(a.title, b.title)

SortCmp_statusdecl(sort, a, b) ==
    IF sort = Some("Priority") THEN IntCmp(PriorityOrd(b.priority), PriorityOrd(a.priority))
    ELSE IF sort = Some("Status")
    THEN IntCmp(StatusOrd(IF a.status = "Backlog" THEN "InProgress"
                          ELSE IF a.status = "InProgress" THEN "Backlog" ELSE a.status),
                StatusOrd(IF b.status = "Backlog" THEN "InProgress"
                          ELSE IF b.status = "InProgress" THEN "Backlog" ELSE b.status))
    ELSE IF sort = Some("Deadline") THEN OptionCmp(b.deadline, a.deadline)
    ELSE StrCmp(a.title, b.title)

SortCmp_nonefirst(sort, a, b) ==
    IF sort = Some("Priority") THEN IntCmp(PriorityOrd(b.priority), PriorityOrd(a.priority))
    ELSE IF sort = Some("Status") THEN IntCmp(StatusOrd(a.status), StatusOrd(b.status))
    ELSE IF sort = Some("Deadline") THEN OptionCmp(a.deadline, b.deadline)
    ELSE StrCmp(a.title, b.title)

SortCmp_titledesc(sort, a, b) ==
    IF sort = Some("Priority") THEN IntCmp(PriorityOrd(b.priority), PriorityOrd(a.priority))
    ELSE IF sort = Some("Status") THEN IntCmp(StatusOrd(a.status), StatusOrd(b.status))
    ELSE IF sort = Some("Deadline") THEN OptionCmp(b.deadline, a.deadline)
    ELSE StrCmp(b.title, a.title)

\* the comparison of SortBy::from(sort)(a) with SortBy::from(sort)(b): both keys
\* are the same variant, so the derived Ord compares the payloads; cmp::Reverse
\* swaps the operands
SortCmp(sort, a, b) ==
    IF sort = Some("Priority") THEN IntCmp(PriorityOrd(b.priority), PriorityOrd(a.priority))
    ELSE IF sort = Some("Status") THEN IntCmp(StatusOrd(a.status), StatusOrd(b.status))
    ELSE IF sort = Some("Deadline") THEN OptionCmp(b.deadline, a.deadline)
    ELSE StrCmp(a.title, b.title)

----------------------------------------------------------------------------
(* binary_heap_plus::BinaryHeap ordered by key, as used by search: a max-heap *)
(* in a vector; position i of the vector is index i + 1 of the sequence       *)

Swap(h, i, j) == [h EXCEPT ![i] = h[j], ![j] = h[i]]

\* sift_up(0, pos): move the element at pos up while it is greater than its parent
RECURSIVE SiftUp(_, _, _)
SiftUp(sort, h, pos) ==
    IF pos <= 1 THEN h
    ELSE LET parent == pos \div 2
         IN  IF SortCmp(sort, h[pos], h[parent]) # 1 THEN h
             ELSE SiftUp(sort, Swap(h, pos, parent), parent)

\* sift_down_range(pos, end): move the element at pos down below its greater
\* child while it is less than that child; of two equal children the right one
RECURSIVE SiftDownRange(_, _, _, _)
SiftDownRange(sort, h, pos, end) ==
    LET left == 2 * pos
        right == 2 * pos + 1
    IN  IF left > end THEN h
        ELSE LET child == IF right <= end /\ SortCmp(sort, h[left], h[right]) # 1
                          THEN right ELSE left
             IN  IF SortCmp(sort, h[pos], h[child]) # -1 THEN h
                 ELSE SiftDownRange(sort, Swap(h, pos, child), child, end)

\* BinaryHeap::push
HeapPush(sort, h, t) == SiftUp(sort, Append(h, t), Len(h) + 1)

\* *heap.peek_mut() = t, and the sift_down(0) when the PeekMut is dropped
HeapReplaceTop(sort, h, t) ==
    SiftDownRange(sort, [h EXCEPT ![1] = t], 1, Len(h))

\* BinaryHeap::into_sorted_vec: heap sort, ascending by key
RECURSIVE SortDown(_, _, _)
SortDown(sort, h, end) ==
    IF end <= 1 THEN h
    ELSE LET next == SiftDownRange(sort, Swap(h, 1, end), 1, end - 1)
         IN  \* the test makes TLC compute `next` before it goes on
             IF Len(next) >= 0 THEN SortDown(sort, next, end - 1) ELSE h

IntoSortedVec_heaporder(sort, h) == h

IntoSortedVec(sort, h) == SortDown(sort, h, Len(h))

----------------------------------------------------------------------------
(* Query (query.rs) *)

\* Query::match_keyword
MatchKeyword(q, t) ==
    IF IsSome(q.keyword) THEN Contains(t.title, Unwrap(q.keyword)) ELSE TRUE

\* Query::match_priority
MatchPriority(q, t) ==
    IF IsSome(q.priority) THEN Unwrap(q.priority) = t.priority ELSE TRUE

\* Query::match_status
MatchStatus(q, t) ==
    IF IsSome(q.status) THEN Unwrap(q.status) = t.status ELSE TRUE

MatchDeadline_strict(deadline, t) ==
    IF IsSome(deadline)
    THEN (IF IsSome(t.deadline)
          THEN TimestampCmp(Unwrap(t.deadline), Unwrap(deadline)) < 0 ELSE TRUE)
    ELSE TRUE

\* Query::match_deadline: deadline is the resolved upper bound
MatchDeadline(deadline, t) ==
    IF IsSome(deadline)
    THEN (IF IsSome(t.deadline)
          THEN TimestampCmp(Unwrap(t.deadline), Unwrap(deadline)) <= 0 ELSE TRUE)
    ELSE TRUE

----------------------------------------------------------------------------
(* TodoList (todos/mod.rs) *)

\* the identifiers of the records TodoList::filter_by yields
FilterBy(store, q, deadline) ==
    {i \in DOMAIN store :
        /\ MatchKeyword(q, store[i])
        /\ MatchPriority(q, store[i])
        /\ MatchStatus(q, store[i])
        /\ MatchDeadline(deadline, store[i])}

\* the orders in which HashMap::values can visit the records of a set of keys
RECURSIVE Orders(_)
Orders(S) ==
    IF S = {} THEN {<<>>}
    ELSE UNION {{<<x>> \o o : o \in Orders(S \ {x})} : x \in S}

SearchVisit_noreplace(sort, top_n, acc, t) ==
    IF acc.count < top_n
    THEN [acc EXCEPT !.heap = HeapPush(sort, acc.heap, t), !.count = acc.count + 1]
    ELSE IF acc.heap # <<>>
    THEN acc
    ELSE [acc EXCEPT !.unreachable = TRUE]

SearchVisit_offbyone(sort, top_n, acc, t) ==
    IF acc.count <= top_n
    THEN [acc EXCEPT !.heap = HeapPush(sort, acc.heap, t), !.count = acc.count + 1]
    ELSE IF acc.heap # <<>>
    THEN (IF SortCmp(sort, acc.heap[1], t) = 1
          THEN [acc EXCEPT !.heap = HeapReplaceTop(sort, acc.heap, t)]
          ELSE acc)
    ELSE [acc EXCEPT !.unreachable = TRUE]

\* one turn of the loop of TodoList::search
SearchVisit(sort, top_n, acc, t) ==
    IF acc.count < top_n
    THEN [acc EXCEPT !.heap = HeapPush(sort, acc.heap, t), !.count = acc.count + 1]
    ELSE IF acc.heap # <<>>
    THEN (IF SortCmp(sort, acc.heap[1], t) = 1
          THEN [acc EXCEPT !.heap = HeapReplaceTop(sort, acc.heap, t)]
          ELSE acc)
    ELSE [acc EXCEPT !.unreachable = TRUE]

\* the heap and the count of TodoList::search before the first record is visited
NewAcc == [heap |-> <<>>, count |-> 0, unreachable |-> FALSE]

\* the loop of TodoList::search over the matching records in the order visited,
\* from position i of the order on
RECURSIVE SearchLoop(_, _, _, _, _, _)
SearchLoop(sort, top_n, acc, store, order, i) ==
    IF i > Len(order) THEN acc
    ELSE LET next == SearchVisit(sort, top_n, acc, store[order[i]])
         IN  \* the test makes TLC compute `next` before it goes on
             IF next.count >= 0
             THEN SearchLoop(sort, top_n, next, store, order, i + 1)
             ELSE acc

\* TodoList::search, given the order in which the matching records are visited
SearchResult(store, q, order) ==
    LET deadline == UnixTime(q.deadline)
        top_n == LimitValidated(q.limit)
    IN  IF ~deadline.ok THEN deadline
        ELSE IF ~top_n.ok THEN top_n
        ELSE LET acc == SearchLoop(q.sort, top_n.val, NewAcc, store, order, 1)
             IN  IF acc.unreachable THEN Err(HeapIsEmpty)
                 ELSE Ok(IntoSortedVec(q.sort, acc.heap))

CountByResult_limited(store, q) ==
    LET deadline == UnixTime(q.deadline)
        top_n == LimitValidated(q.limit)
    IN  IF ~deadline.ok THEN deadline
        ELSE LET count == Cardinality(FilterBy(store, q, deadline.val))
             IN  Ok(IF count < top_n.val THEN count ELSE top_n.val)

\* TodoList::count_by
CountByResult(store, q) ==
    LET deadline == UnixTime(q.deadline)
    IN  IF ~deadline.ok THEN deadline
        ELSE Ok(Cardinality(FilterBy(store, q, deadline.val)))

AddResult_nodeadline(store, item, id, clock) ==
    LET deadline == UnixTime(item.deadline)
        title == Validated(item.title)
    IN  IF ~deadline.ok THEN [store |-> store, ret |-> deadline]
        ELSE IF ~title.ok THEN [store |-> store, ret |-> title]
        ELSE LET todo == [id |-> id,
                          title |-> title.val,
                          priority |-> item.priority,
                          deadline |-> None,
                          status |-> "Backlog",
                          created_timestamp |-> clock,
                          updated_timestamp |-> clock]
             IN  [store |-> [i \in DOMAIN store \cup {id} |->
                                IF i = id THEN todo ELSE store[i]],
                  ret |-> Ok(todo)]

AddResult_zeroupdated(store, item, id, clock) ==
    LET deadline == UnixTime(item.deadline)
        title == Validated(item.title)
    IN  IF ~deadline.ok THEN [store |-> store, ret |-> deadline]
        ELSE IF ~title.ok THEN [store |-> store, ret |-> title]
        ELSE LET todo == [id |-> id,
                          title |-> title.val,
                          priority |-> item.priority,
                          deadline |-> deadline.val,
                          status |-> "Backlog",
                          created_timestamp |-> clock,
                          updated_timestamp |-> 0]
             IN  [store |-> [i \in DOMAIN store \cup {id} |->
                                IF i = id THEN todo ELSE store[i]],
                  ret |-> Ok(todo)]

AddResult_titlefirst(store, item, id, clock) ==
    LET deadline == UnixTime(item.deadline)
        title == Validated(item.title)
    IN  IF ~title.ok THEN [store |-> store, ret |-> title]
        ELSE IF ~deadline.ok THEN [store |-> store, ret |-> deadline]
        ELSE LET todo == [id |-> id,
                          title |-> title.val,
                          priority |-> item.priority,
                          deadline |-> deadline.val,
                          status |-> "Backlog",
                          created_timestamp |-> clock,
                          updated_timestamp |-> clock]
             IN  [store |-> [i \in DOMAIN store \cup {id} |->
                                IF i = id THEN todo ELSE store[i]],
                  ret |-> Ok(todo)]

\* TodoList::add: the new store and what the call returns
AddResult(store, item, id, clock) ==
    LET deadline == UnixTime(item.deadline)
        title == Validated(item.title)
    IN  IF ~deadline.ok THEN [store |-> store, ret |-> deadline]
        ELSE IF ~title.ok THEN [store |-> store, ret |-> title]
        ELSE LET todo == [id |-> id,
                          title |-> title.val,
                          priority |-> item.priority,
                          deadline |-> deadline.val,
                          status |-> "Backlog",
                          created_timestamp |-> clock,
                          updated_timestamp |-> clock]
             IN  [store |-> [i \in DOMAIN store \cup {id} |->
                                IF i = id THEN todo ELSE store[i]],
                  ret |-> Ok(todo)]

ChangeIsPresent_always(change) == TRUE

\* UpdateTodo::change_is_present
ChangeIsPresent(change) ==
    \/ IsSome(change.title)
    \/ IsSome(change.priority)
    \/ IsSome(change.status)
    \/ DeadlineIsSome(change.deadline)

\* the field assignments of TodoList::update on a record that was found, the
\* title already validated: the record and the flag `modified`
Modified(todo, title_update, change, deadline_update) ==
    LET m1 == IsSome(title_update) /\ todo.title # Unwrap(title_update)
        t1 == IF m1 THEN [todo EXCEPT !.title = Unwrap(title_update)] ELSE todo
        m2 == IsSome(change.priority) /\ t1.priority # Unwrap(change.priority)
        t2 == IF m2 THEN [t1 EXCEPT !.priority = Unwrap(change.priority)] ELSE t1
        m3 == IsSome(change.status) /\ t2.status # Unwrap(change.status)
        t3 == IF m3 THEN [t2 EXCEPT !.status = Unwrap(change.status)] ELSE t2
        m4 == t3.deadline # deadline_update
        t4 == IF m4 THEN [t3 EXCEPT !.deadline = deadline_update] ELSE t3
    IN  [todo |-> t4, modified |-> m1 \/ m2 \/ m3 \/ m4]

UpdateResult_partial(store, id, change, clock) ==
    IF ~ChangeIsPresent(change)
    THEN [store |-> store, ret |-> Err(UpdateHasNoChanges)]
    ELSE LET deadline_update == UnixTime(change.deadline)
         IN  IF ~deadline_update.ok THEN [store |-> store, ret |-> deadline_update]
             ELSE IF id \notin DOMAIN store
             THEN [store |-> store, ret |-> Err(TodoNotFound(id))]
             ELSE LET title == IF IsSome(change.title)
                               THEN Validated(Unwrap(change.title))
                               ELSE Ok(<<>>)
                      m == Modified(store[id],
                                    IF IsSome(change.title) /\ title.ok
                                    THEN Some(title.val) ELSE None,
                                    change, deadline_update.val)
                      todo == IF m.modified
                              THEN [m.todo EXCEPT !.updated_timestamp = clock]
                              ELSE m.todo
                  IN  IF ~title.ok
                      THEN [store |-> [store EXCEPT ![id] = todo], ret |-> title]
                      ELSE [store |-> [store EXCEPT ![id] = todo], ret |-> Ok(todo)]

UpdateResult_keepdeadline(store, id, change, clock) ==
    IF ~ChangeIsPresent(change)
    THEN [store |-> store, ret |-> Err(UpdateHasNoChanges)]
    ELSE LET deadline_update == UnixTime(change.deadline)
         IN  IF ~deadline_update.ok THEN [store |-> store, ret |-> deadline_update]
             ELSE IF id \notin DOMAIN store
             THEN [store |-> store, ret |-> Err(TodoNotFound(id))]
             ELSE LET title == IF IsSome(change.title)
                               THEN Validated(Unwrap(change.title))
                               ELSE Ok(<<>>)
                  IN  IF ~title.ok THEN [store |-> store, ret |-> title]
                      ELSE LET m == Modified(store[id],
                                             IF IsSome(change.title)
                                             THEN Some(title.val) ELSE None,
                                             change,
                                             IF DeadlineIsSome(change.deadline)
                                             THEN deadline_update.val
                                             ELSE store[id].deadline)
                               todo == IF m.modified
                                       THEN [m.todo EXCEPT !.updated_timestamp = clock]
                                       ELSE m.todo
                           IN  [store |-> [store EXCEPT ![id] = todo],
                                ret |-> Ok(todo)]

UpdateResult_nobump(store, id, change, clock) ==
    IF ~ChangeIsPresent(change)
    THEN [store |-> store, ret |-> Err(UpdateHasNoChanges)]
    ELSE LET deadline_update == UnixTime(change.deadline)
         IN  IF ~deadline_update.ok THEN [store |-> store, ret |-> deadline_update]
             ELSE IF id \notin DOMAIN store
             THEN [store |-> store, ret |-> Err(TodoNotFound(id))]
             ELSE LET title == IF IsSome(change.title)
                               THEN Validated(Unwrap(change.title))
                               ELSE Ok(<<>>)
                  IN  IF ~title.ok THEN [store |-> store, ret |-> title]
                      ELSE LET m == Modified(store[id],
                                             IF IsSome(change.title)
                                             THEN Some(title.val) ELSE None,
                                             change, deadline_update.val)
                           IN  [store |-> [store EXCEPT ![id] = m.todo],
                                ret |-> Ok(m.todo)]

UpdateResult_lookupfirst(store, id, change, clock) ==
    IF ~ChangeIsPresent(change)
    THEN [store |-> store, ret |-> Err(UpdateHasNoChanges)]
    ELSE IF id \notin DOMAIN store
    THEN [store |-> store, ret |-> Err(TodoNotFound(id))]
    ELSE LET deadline_update == UnixTime(change.deadline)
         IN  IF ~deadline_update.ok THEN [store |-> store, ret |-> deadline_update]
             ELSE LET title == IF IsSome(change.title)
                               THEN Validated(Unwrap(change.title))
                               ELSE Ok(<<>>)
                  IN  IF ~title.ok THEN [store |-> store, ret |-> title]
                      ELSE LET m == Modified(store[id],
                                             IF IsSome(change.title)
                                             THEN Some(title.val) ELSE None,
                                             change, deadline_update.val)
                               todo == IF m.modified
                                       THEN [m.todo EXCEPT !.updated_timestamp = clock]
                                       ELSE m.todo
                           IN  [store |-> [store EXCEPT ![id] = todo],
                                ret |-> Ok(todo)]

UpdateResult_upsert(store, id, change, clock) ==
    IF ~ChangeIsPresent(change)
    THEN [store |-> store, ret |-> Err(UpdateHasNoChanges)]
    ELSE LET deadline_update == UnixTime(change.deadline)
         IN  IF ~deadline_update.ok THEN [store |-> store, ret |-> deadline_update]
             ELSE LET title == IF IsSome(change.title)
                               THEN Validated(Unwrap(change.title))
                               ELSE Ok(<<>>)
                      found == IF id \in DOMAIN store THEN store[id]
                               ELSE [id |-> id, title |-> <<>>, priority |-> "Low",
                                     deadline |-> None, status |-> "Backlog",
                                     created_timestamp |-> 0,
                                     updated_timestamp |-> 0]
                  IN  IF ~title.ok THEN [store |-> store, ret |-> title]
                      ELSE LET m == Modified(found,
                                             IF IsSome(change.title)
                                             THEN Some(title.val) ELSE None,
                                             change, deadline_update.val)
                               todo == IF m.modified
                                       THEN [m.todo EXCEPT !.updated_timestamp = clock]
                                       ELSE m.todo
                           IN  [store |-> [i \in DOMAIN store \cup {id} |->
                                              IF i = id THEN todo ELSE store[i]],
                                ret |-> Ok(todo)]

UpdateResult_stampcreated(store, id, change, clock) ==
    IF ~ChangeIsPresent(change)
    THEN [store |-> store, ret |-> Err(UpdateHasNoChanges)]
    ELSE LET deadline_update == UnixTime(change.deadline)
         IN  IF ~deadline_update.ok THEN [store |-> store, ret |-> deadline_update]
             ELSE IF id \notin DOMAIN store
             THEN [store |-> store, ret |-> Err(TodoNotFound(id))]
             ELSE LET title == IF IsSome(change.title)
                               THEN Validated(Unwrap(change.title))
                               ELSE Ok(<<>>)
                  IN  IF ~title.ok THEN [store |-> store, ret |-> title]
                      ELSE LET m == Modified(store[id],
                                             IF IsSome(change.title)
                                             THEN Some(title.val) ELSE None,
                                             change, deadline_update.val)
                               todo == IF m.modified
                                       THEN [m.todo EXCEPT !.created_timestamp = clock,
                                                           !.updated_timestamp = clock]
                                       ELSE m.todo
                           IN  [store |-> [store EXCEPT ![id] = todo],
                                ret |-> Ok(todo)]

UpdateResult_earlyclone(store, id, change, clock) ==
    IF ~ChangeIsPresent(change)
    THEN [store |-> store, ret |-> Err(UpdateHasNoChanges)]
    ELSE LET deadline_update == UnixTime(change.deadline)
         IN  IF ~deadline_update.ok THEN [store |-> store, ret |-> deadline_update]
             ELSE IF id \notin DOMAIN store
             THEN [store |-> store, ret |-> Err(TodoNotFound(id))]
             ELSE LET title == IF IsSome(change.title)
                               THEN Validated(Unwrap(change.title))
                               ELSE Ok(<<>>)
                  IN  IF ~title.ok THEN [store |-> store, ret |-> title]
                      ELSE LET m == Modified(store[id],
                                             IF IsSome(change.title)
                                             THEN Some(title.val) ELSE None,
                                             change, deadline_update.val)
                               todo == IF m.modified
                                       THEN [m.todo EXCEPT !.updated_timestamp = clock]
                                       ELSE m.todo
                           IN  [store |-> [store EXCEPT ![id] = todo],
                                ret |-> Ok(m.todo)]

\* TodoList::update: the new store and what the call returns
UpdateResult(store, id, change, clock) ==
    IF ~ChangeIsPresent(change)
    THEN [store |-> store, ret |-> Err(UpdateHasNoChanges)]
    ELSE LET deadline_update == UnixTime(change.deadline)
         IN  IF ~deadline_update.ok THEN [store |-> store, ret |-> deadline_update]
             ELSE IF id \notin DOMAIN store
             THEN [store |-> store, ret |-> Err(TodoNotFound(id))]
             ELSE LET title == IF IsSome(change.title)
                               THEN Validated(Unwrap(change.title))
                               ELSE Ok(<<>>)
                  IN  IF ~title.ok THEN [store |-> store, ret |-> title]
                      ELSE LET m == Modified(store[id],
                                             IF IsSome(change.title)
                                             THEN Some(title.val) ELSE None,
                                             change, deadline_update.val)
                               todo == IF m.modified
                                       THEN [m.todo EXCEPT !.updated_timestamp = clock]
                                       ELSE m.todo
                           IN  [store |-> [store EXCEPT ![id] = todo],
                                ret |-> Ok(todo)]

\* TodoList::get
GetResult(store, id) ==
    IF id \in DOMAIN store THEN Ok(store[id]) ELSE Err(TodoNotFound(id))

DeleteResult_silent(store, id) ==
    [store |-> [i \in DOMAIN store \ {id} |-> store[i]], ret |-> Ok(<<>>)]

\* TodoList::delete: the new store and what the call returns
DeleteResult(store, id) ==
    IF id \in DOMAIN store
    THEN [store |-> [i \in DOMAIN store \ {id} |-> store[i]], ret |-> Ok(<<>>)]
    ELSE [store |-> store, ret |-> Err(TodoNotFound(id))]

\* TodoList::count_all
CountAll(store) == Cardinality(DOMAIN store)

\* Todo::is_in_id_set
IsInIdSet(t, ids) == t.id \in ids

\* Todo::is_in_priority_set
IsInPrioritySet(t, priorities) == t.priority \in priorities

IsInStatusSet_headonly(t, statuses) ==
    t.status = CHOOSE x \in statuses : \A y \in statuses : StatusOrd(x) <= StatusOrd(y)

\* Todo::is_in_status_set
IsInStatusSet(t, statuses) == t.status \in statuses

\* the predicate a caller of delete_by passes as should_delete, named by the
\* function it is
ShouldDelete(f, t, targets) ==
    CASE f = "is_in_id_set" -> IsInIdSet(t, targets)
      [] f = "is_in_priority_set" -> IsInPrioritySet(t, targets)
      [] f = "is_in_status_set" -> IsInStatusSet(t, targets)

\* TodoList::delete_by: retain the records that should not be deleted and count
\* the others
DeleteBy(store, targets, should_delete) ==
    LET gone == {i \in DOMAIN store : ShouldDelete(should_delete, store[i], targets)}
    IN  [store |-> [i \in DOMAIN store \ gone |-> store[i]],
         ret |-> Cardinality(gone)]

\* TodoList::delete_by_ids
DeleteByIdsResult(store, targets) == DeleteBy(store, targets, "is_in_id_set")

\* TodoList::delete_by_priorities
DeleteByPrioritiesResult(store, targets) ==
    DeleteBy(store, targets, "is_in_priority_set")

\* TodoList::delete_by_statuses
DeleteByStatusesResult(store, targets) ==
    DeleteBy(store, targets, "is_in_status_set")

\* TodoList::delete_by_status
DeleteByStatusResult(store, target) == DeleteByStatusesResult(store, {target})

\* TodoList::delete_all
DeleteAllResult(store) ==
    [store |-> [i \in {} |-> store[i]], ret |-> CountAll(store)]

----------------------------------------------------------------------------
(* Inputs *)

StrA == <<97>>

StrB == <<98>>

StrAB == <<97, 98>>

StrPaddedB == <<32, 98, 32>>

StrBlank == <<32>>

StrTooLong == Repeat(97, MAX_LEN + 1)

\* "1970-01-01 00"
Date0 == <<49, 57, 55, 48, 45, 48, 49, 45, 48, 49, 32, 48, 48>>

\* " 1970-01-01 01 "
Date1 == <<32, 49, 57, 55, 48, 45, 48, 49, 45, 48, 49, 32, 48, 49, 32>>

\* "1969-12-31 23", an hour before the epoch
DateBefore == <<49, 57, 54, 57, 45, 49, 50, 45, 51, 49, 32, 50, 51>>

\* "1970-1-1  1": fields of one digit and two spaces, the hour of Date1
DateLoose == <<49, 57, 55, 48, 45, 49, 45, 49, 32, 32, 49>>

\* "abc"
DateAbc == <<97, 98, 99>>

\* "2021-02-29 01"
DateFeb29 == <<50, 48, 50, 49, 45, 48, 50, 45, 50, 57, 32, 48, 49>>

Opt(S) == {None} \cup {Some(x) : x \in S}

\* `result` when no call is outstanding
NoResult == [op |-> "none", req |-> <<>>, ret |-> Ok(<<>>), before |-> <<>>]

\* `scan` when no search is in its loop
NoScan == [top_n |-> 0, acc |-> NewAcc, rest |-> {}]

----------------------------------------------------------------------------
(* The store as a state machine: each action is one call of the API, whose *)
(* request and return value are kept in `result` until the caller takes it, *)
(* together with the store as it was before the call.  A search can also   *)
(* be taken one visit of its loop at a time: `scan` then holds the locals  *)
(* of the call (top_n, the heap and the count) and the matching records    *)
(* the iterator has not given yet                                          *)

Init ==
    /\ todos = <<>>
    /\ issued = 0
    /\ now = 0
    /\ result = NoResult
    /\ scan = NoScan

\* the caller takes the value returned and is free to call again
Return ==
    /\ result.op \notin {"none", "searching"}
    /\ result' = NoResult
    /\ UNCHANGED <<todos, issued, now, scan>>

\* the wall clock of unix_time_now!() advances by a second
Tick ==
    /\ result.op = "none"
    /\ now < MaxTime
    /\ now' = now + 1
    /\ UNCHANGED <<todos, issued, result, scan>>

\* Api::add / TodoList::add; Uuid::new_v4 gives an identifier never given before
Add(raw) ==
    /\ result.op = "none"
    /\ LET item == [title |-> TitleNew(raw.title),
                    priority |-> raw.priority,
                    deadline |-> raw.deadline]
           r == AddResult(todos, item, issued + 1, now)
       IN  /\ todos' = r.store
           /\ issued' = IF r.ret.ok THEN issued + 1 ELSE issued
           /\ result' = [op |-> "add", req |-> raw, ret |-> r.ret, before |-> todos]
    /\ UNCHANGED <<now, scan>>

\* Api::update / TodoList::update
Update(id, raw) ==
    /\ result.op = "none"
    /\ LET change == [title |-> IF IsSome(raw.title)
                                THEN Some(TitleNew(Unwrap(raw.title))) ELSE None,
                      priority |-> raw.priority,
                      status |-> raw.status,
                      deadline |-> raw.deadline]
           r == UpdateResult(todos, id, change, now)
       IN  /\ todos' = r.store
           /\ result' = [op |-> "update", req |-> [id |-> id, change |-> raw],
                         ret |-> r.ret, before |-> todos]
    /\ UNCHANGED <<issued, now, scan>>

\* Api::get / TodoList::get
Get(id) ==
    /\ result.op = "none"
    /\ result' = [op |-> "get", req |-> [id |-> id], ret |-> GetResult(todos, id),
                  before |-> todos]
    /\ UNCHANGED <<todos, issued, now, scan>>

\* Api::delete / TodoList::delete
Delete(id) ==
    /\ result.op = "none"
    /\ LET r == DeleteResult(todos, id)
       IN  /\ todos' = r.store
           /\ result' = [op |-> "delete", req |-> [id |-> id], ret |-> r.ret,
                         before |-> todos]
    /\ UNCHANGED <<issued, now, scan>>

\* TodoList::delete_by_ids, delete_by_priorities, delete_by_statuses and
\* delete_by_status: `by` names the attribute, targets is a non-empty set
DeleteMany(by, targets) ==
    /\ result.op = "none"
    /\ LET r == CASE by = "ids" -> DeleteByIdsResult(todos, targets)
                  [] by = "priorities" -> DeleteByPrioritiesResult(todos, targets)
                  [] by = "statuses" -> DeleteByStatusesResult(todos, targets)
                  [] by = "status" ->
                        DeleteByStatusResult(todos, CHOOSE t \in targets : TRUE)
       IN  /\ todos' = r.store
           /\ result' = [op |-> "delete_by", req |-> [by |-> by, targets |-> targets],
                         ret |-> Ok(r.ret), before |-> todos]
    /\ UNCHANGED <<issued, now, scan>>

\* Api::delete_all / TodoList::delete_all
DeleteAll ==
    /\ result.op = "none"
    /\ LET r == DeleteAllResult(todos)
       IN  /\ todos' = r.store
           /\ result' = [op |-> "delete_all", req |-> <<>>, ret |-> Ok(r.ret),
                         before |-> todos]
    /\ UNCHANGED <<issued, now, scan>>

\* Api::search / TodoList::search
Search(q, order) ==
    /\ result.op = "none"
    /\ result' = [op |-> "search", req |-> q, ret |-> SearchResult(todos, q, order),
                  before |-> todos]
    /\ UNCHANGED <<todos, issued, now, scan>>

\* TodoList::search up to its loop: the deadline and the limit are resolved, the
\* heap is made, and filter_by's iterator stands before the matching records; a
\* deadline that does not parse is returned at once
SearchBegin(q) ==
    /\ result.op = "none"
    /\ LET deadline == UnixTime(q.deadline)
           top_n == LimitValidated(q.limit)
       IN  IF ~deadline.ok
           THEN /\ result' = [op |-> "search", req |-> q, ret |-> deadline,
                              before |-> todos]
                /\ scan' = NoScan
           ELSE IF ~top_n.ok
           THEN /\ result' = [op |-> "search", req |-> q, ret |-> top_n,
                              before |-> todos]
                /\ scan' = NoScan
           ELSE /\ result' = [op |-> "searching", req |-> q, ret |-> Ok(<<>>),
                              before |-> todos]
                /\ scan' = [top_n |-> top_n.val, acc |-> NewAcc,
                            rest |-> FilterBy(todos, q, deadline.val)]
    /\ UNCHANGED <<todos, issued, now>>

\* one turn of the loop: HashMap::values gives any record it has not given yet.
\* search borrows the store for the whole call, so nothing else runs in between
SearchNext ==
    /\ result.op = "searching"
    /\ ~scan.acc.unreachable
    /\ \E id \in scan.rest :
          scan' = [scan EXCEPT !.acc = SearchVisit(result.req.sort, scan.top_n,
                                                   scan.acc, todos[id]),
                               !.rest = scan.rest \ {id}]
    /\ UNCHANGED <<todos, issued, now, result>>

\* the end of TodoList::search: the iterator is exhausted and the heap is returned
\* as a sorted vector, or unreachable!() has panicked
SearchEnd ==
    /\ result.op = "searching"
    /\ scan.rest = {} \/ scan.acc.unreachable
    /\ result' = [result EXCEPT
                      !.op = "search",
                      !.ret = IF scan.acc.unreachable THEN Err(HeapIsEmpty)
                              ELSE Ok(IntoSortedVec(result.req.sort, scan.acc.heap))]
    /\ scan' = NoScan
    /\ UNCHANGED <<todos, issued, now>>

\* TodoList::count_by
CountBy(q) ==
    /\ result.op = "none"
    /\ result' = [op |-> "count_by", req |-> q, ret |-> CountByResult(todos, q),
                  before |-> todos]
    /\ UNCHANGED <<todos, issued, now, scan>>

\* OptionalResultLimit::validated on its own
Validate(limit) ==
    /\ result.op = "none"
    /\ result' = [op |-> "validated", req |-> limit, ret |-> LimitValidated(limit),
                  before |-> todos]
    /\ UNCHANGED <<todos, issued, now, scan>>

----------------------------------------------------------------------------
(* Spec: add and update with every combination of fields, and the clock *)

NewTodos ==
    [title : {StrA, StrPaddedB, StrBlank, StrTooLong},
     priority : {"Low", "High"},
     deadline : {None, Some(Date0), Some(DateAbc)}]

UpdateTodos ==
    [title : {None, Some(StrPaddedB), Some(StrBlank), Some(StrTooLong)},
     priority : {None, Some("High")},
     status : {None, Some("Done")},
     deadline : {None, Some(Date0), Some(DateAbc)}]

Next ==
    \/ \E raw \in NewTodos : issued < MaxTodos /\ Add(raw)
    \/ \E id \in 1..(MaxTodos + 1), raw \in UpdateTodos : Update(id, raw)
    \/ Tick
    \/ Return

Spec == Init /\ [][Next]_vars

----------------------------------------------------------------------------
(* SpecSearch: search over every store built from a few kinds of record *)

SearchNewTodos ==
    {[title |-> StrA, priority |-> "Low", deadline |-> None],
     [title |-> StrB, priority |-> "High", deadline |-> Some(Date0)]}

SearchUpdateTodos ==
    {[title |-> Some(StrAB), priority |-> Some("Medium"),
      status |-> Some("InProgress"), deadline |-> Some(Date1)],
     [title |-> None, priority |-> None, status |-> Some("Done"),
      deadline |-> None]}

NoFilter ==
    [keyword |-> None, priority |-> None, status |-> None, deadline |-> None]

Filters ==
    {[keyword |-> Some(StrA), priority |-> None, status |-> None, deadline |-> None],
     [keyword |-> None, priority |-> None, status |-> None,
      deadline |-> Some(Date0)],
     [keyword |-> None, priority |-> Some("High"), status |-> Some("Done"),
      deadline |-> None],
     [keyword |-> Some(StrB), priority |-> Some("High"), status |-> Some("Backlog"),
      deadline |-> Some(Date1)]}

MakeQuery(f, sort, limit) ==
    [keyword |-> f.keyword, priority |-> f.priority, status |-> f.status,
     deadline |-> f.deadline, sort |-> sort, limit |-> limit]

Queries ==
    {MakeQuery(NoFilter, sort, limit) :
        sort \in Opt(QuerySorts), limit \in {None, Some(1), Some(2)}}
    \cup {MakeQuery(f, sort, Some(1)) : f \in Filters, sort \in Opt(QuerySorts)}
    \cup {MakeQuery([NoFilter EXCEPT !.deadline = Some(DateFeb29)], None, None)}

\* the records the query's filters select; none when its deadline does not parse
Matching(store, q) ==
    LET deadline == UnixTime(q.deadline)
    IN  IF deadline.ok THEN FilterBy(store, q, deadline.val) ELSE {}

NextSearch ==
    \/ \E raw \in SearchNewTodos : issued < MaxSearchTodos /\ Add(raw)
    \/ \E id \in 1..MaxSearchTodos, raw \in SearchUpdateTodos : Update(id, raw)
    \/ \E q \in Queries : \E order \in Orders(Matching(todos, q)) : Search(q, order)
    \/ Return

SpecSearch == Init /\ [][NextSearch]_vars

----------------------------------------------------------------------------
(* SpecOrder: search and count_by with and without a deadline bound, in every *)
(* sort dimension and every order of visit                                    *)

OrderQueries ==
    {MakeQuery(NoFilter, sort, Some(2)) : sort \in Opt(QuerySorts)}
    \cup {MakeQuery([NoFilter EXCEPT !.deadline = Some(Date0)], sort, None) :
             sort \in Opt(QuerySorts)}
    \cup {MakeQuery([NoFilter EXCEPT !.deadline = Some(Date0)], sort, Some(1)) :
             sort \in {None, Some("Deadline")}}
    \cup {MakeQuery([NoFilter EXCEPT !.deadline = Some(d)], None, None) :
             d \in {DateBefore, DateLoose}}

NextOrder ==
    \/ \E raw \in SearchNewTodos : issued < MaxSearchTodos /\ Add(raw)
    \/ \E id \in 1..MaxSearchTodos, raw \in SearchUpdateTodos : Update(id, raw)
    \/ \E q \in OrderQueries :
          \E order \in Orders(Matching(todos, q)) : Search(q, order)
    \/ \E q \in OrderQueries : CountBy(q)
    \/ Return

SpecOrder == Init /\ [][NextOrder]_vars

----------------------------------------------------------------------------
(* SpecBulk: count_by on a store of more records than the maximum limit, which *)
(* differ in title, priority, deadline and, for the first two, status         *)

\* the n-th record added: the titles, the priorities and the deadlines in turn
BulkNewTodo(n) ==
    [title |-> IF n % 2 = 0 THEN StrA ELSE StrB,
     priority |-> IF n % 3 = 0 THEN "Low" ELSE IF n % 3 = 1 THEN "High" ELSE "Medium",
     deadline |-> IF n % 4 = 0 THEN None
                  ELSE IF n % 4 = 1 THEN Some(Date0)
                  ELSE IF n % 4 = 2 THEN Some(Date1)
                  ELSE Some(DateBefore)]

\* the records whose status is changed
BulkUpdateIds == {1, 2}

BulkUpdateTodos ==
    {[title |-> None, priority |-> None, status |-> Some("Done"),
      deadline |-> Some(Date0)],
     [title |-> None, priority |-> None, status |-> Some("InProgress"),
      deadline |-> None]}

BulkLimits == {None, Some(0), Some(5), Some(100), Some(101), Some(200)}

BulkQueries == {MakeQuery(NoFilter, Some("Priority"), limit) : limit \in BulkLimits}

\* count_by with and without filters, with several sort dimensions and limits
BulkCountQueries ==
    BulkQueries
    \cup {MakeQuery(NoFilter, None, None),
          MakeQuery([NoFilter EXCEPT !.priority = Some("High")], None, None),
          MakeQuery([NoFilter EXCEPT !.priority = Some("High")], Some("Status"),
                    Some(5)),
          MakeQuery([keyword |-> Some(StrA), priority |-> Some("Medium"),
                     status |-> Some("Backlog"), deadline |-> Some(Date0)],
                    Some("Deadline"), Some(1)),
          MakeQuery([NoFilter EXCEPT !.keyword = Some(StrB)], None, None),
          MakeQuery([NoFilter EXCEPT !.status = Some("Done")], None, Some(200)),
          MakeQuery([NoFilter EXCEPT !.deadline = Some(Date0)], None, Some(5)),
          MakeQuery([NoFilter EXCEPT !.deadline = Some(DateBefore)], None, None),
          MakeQuery([NoFilter EXCEPT !.deadline = Some(DateAbc)], None, None)}

NextBulk ==
    \/ issued < MaxBulk /\ Add(BulkNewTodo(issued + 1))
    \/ \E id \in BulkUpdateIds, raw \in BulkUpdateTodos : Update(id, raw)
    \/ \E q \in BulkCountQueries : CountBy(q)
    \/ Return

SpecBulk == Init /\ [][NextBulk]_vars

----------------------------------------------------------------------------
(* SpecScan: search taken one visit at a time on a store of more records than *)
(* the default limit, so that every order in which HashMap::values can give   *)
(* the records is a behaviour                                                 *)

\* the n-th record added: the titles a, b, c, .. and the priorities in turn
ScanNewTodo(n) ==
    [title |-> <<96 + n>>,
     priority |-> IF n % 3 = 0 THEN "Low" ELSE IF n % 3 = 1 THEN "High" ELSE "Medium",
     deadline |-> None]

\* limits that resolve to the default limit and to less, on all the records
ScanLimits == {None, Some(0), Some(3)}

\* the limit above the maximum is taken with a filter: no store of this size holds
\* more matching records than the maximum limit
ScanQueries ==
    {MakeQuery(NoFilter, None, limit) : limit \in ScanLimits}
    \cup {MakeQuery([NoFilter EXCEPT !.priority = Some("High")], Some("Priority"),
                    Some(2)),
          MakeQuery([NoFilter EXCEPT !.priority = Some("Medium")], None, Some(200)),
          MakeQuery([NoFilter EXCEPT !.deadline = Some(DateAbc)], None, None)}

NextScan ==
    \/ issued < MaxScan /\ Add(ScanNewTodo(issued + 1))
    \/ \E q \in ScanQueries : SearchBegin(q)
    \/ SearchNext
    \/ SearchEnd
    \/ Return

SpecScan == Init /\ [][NextScan]_vars

----------------------------------------------------------------------------
(* SpecLimit: the result limit on its own *)

LimitInputs == Opt(0..MaxLimitInput) \cup {Some(2147483647)}

NextLimit ==
    \/ \E limit \in LimitInputs : Validate(limit)
    \/ Return

SpecLimit == Init /\ [][NextLimit]_vars

----------------------------------------------------------------------------
(* What a finished search returned *)

SearchOk == result.op = "search" /\ result.ret.ok

Found == result.ret.val

FoundIds == {Found[i].id : i \in 1..Len(Found)}

\* the matching records that search did not return
LeftOut == Matching(todos, result.req) \ FoundIds

Min(a, b) == IF a < b THEN a ELSE b

----------------------------------------------------------------------------
(* SpecStore: several records, added, updated, read and deleted *)

StoreNewTodos ==
    {[title |-> StrA, priority |-> "Low", deadline |-> None],
     [title |-> StrPaddedB, priority |-> "High", deadline |-> Some(DateBefore)],
     [title |-> StrBlank, priority |-> "Low", deadline |-> None]}

StoreUpdateTodos ==
    {[title |-> Some(StrPaddedB), priority |-> None, status |-> None,
      deadline |-> Some(DateLoose)],
     [title |-> None, priority |-> None, status |-> Some("Done"),
      deadline |-> None]}

NextStore ==
    \/ \E raw \in StoreNewTodos : issued < MaxStoreTodos /\ Add(raw)
    \/ \E id \in 1..(MaxStoreTodos + 1), raw \in StoreUpdateTodos : Update(id, raw)
    \/ \E id \in 1..(MaxStoreTodos + 1) : Get(id)
    \/ \E id \in 1..(MaxStoreTodos + 1) : Delete(id)
    \/ Tick
    \/ Return

SpecStore == Init /\ [][NextStore]_vars

----------------------------------------------------------------------------
(* SpecDelete: records of several priorities and statuses, deleted one by one, *)
(* by attribute and all at once                                               *)

DeleteNewTodos ==
    {[title |-> StrA, priority |-> "Low", deadline |-> None],
     [title |-> StrB, priority |-> "High", deadline |-> Some(Date0)]}

DeleteUpdateTodos ==
    {[title |-> None, priority |-> None, status |-> Some("Done"),
      deadline |-> None],
     [title |-> None, priority |-> Some("Medium"), status |-> Some("InProgress"),
      deadline |-> None],
     [title |-> None, priority |-> None, status |-> None, deadline |-> None],
     [title |-> None, priority |-> None, status |-> Some("Done"),
      deadline |-> Some(DateAbc)]}

\* the non-empty sets of a set: nonempty_collections::NESet
NESets(S) == SUBSET S \ {{}}

NextDelete ==
    \/ \E raw \in DeleteNewTodos : issued < MaxStoreTodos /\ Add(raw)
    \/ \E id \in 1..MaxStoreTodos, raw \in DeleteUpdateTodos : Update(id, raw)
    \/ \E id \in 1..(MaxStoreTodos + 1) : Get(id)
    \/ \E id \in 1..(MaxStoreTodos + 1) : Delete(id)
    \/ \E targets \in NESets(1..(MaxStoreTodos + 1)) : DeleteMany("ids", targets)
    \/ \E targets \in NESets(Priorities) : DeleteMany("priorities", targets)
    \/ \E targets \in NESets(Statuses) : DeleteMany("statuses", targets)
    \/ \E target \in Statuses : DeleteMany("status", {target})
    \/ DeleteAll
    \/ Return

SpecDelete == Init /\ [][NextDelete]_vars

----------------------------------------------------------------------------
(* SpecTitle: add and update with titles of every length around the limits *)

\* s between a space and a tab
Padded(s) == <<32>> \o s \o <<9>>

Titles ==
    LET plain == {Repeat(97, n) : n \in 0..(MAX_LEN + MaxOver)}
    IN  plain \cup {Padded(t) : t \in plain} \cup {Repeat(32, 2)}

TitleNewTodos ==
    [title : Titles, priority : {"Medium"}, deadline : {None}]

TitleUpdateTodos ==
    [title : {Some(t) : t \in Titles}, priority : {None}, status : {None},
     deadline : {None}]

NextTitle ==
    \/ \E raw \in TitleNewTodos : issued < MaxTodos /\ Add(raw)
    \/ \E id \in 1..MaxTodos, raw \in TitleUpdateTodos : Update(id, raw)
    \/ \E id \in 1..MaxTodos : Delete(id)
    \/ Return

SpecTitle == Init /\ [][NextTitle]_vars

----------------------------------------------------------------------------
(* Claims about search *)

\* C1: search returns exactly min(L, M) distinct stored matching records, and no
\* matching record left out has a sort key strictly smaller than the key of a
\* returned record, whatever the order in which the records are visited.
C1_TopN ==
    SearchOk =>
        /\ Len(Found) = Min(LimitValidated(result.req.limit).val,
                            Cardinality(Matching(todos, result.req)))
        /\ \A i \in 1..Len(Found) :
              /\ Found[i].id \in Matching(todos, result.req)
              /\ todos[Found[i].id] = Found[i]
        /\ \A i, j \in 1..Len(Found) : i # j => Found[i].id # Found[j].id
        /\ \A k \in LeftOut : \A i \in 1..Len(Found) :
              SortCmp(result.req.sort, todos[k], Found[i]) # -1

\* a search that the limit cut, where a record left out sorts strictly after a
\* returned one
C1_Witness ==
    /\ SearchOk
    /\ Len(Found) = 2
    /\ Cardinality(Matching(todos, result.req)) = 3
    /\ \E k \in LeftOut : SortCmp(result.req.sort, todos[k], Found[2]) = 1

\* C2: search with sort = Deadline returns records in ascending order of deadline
\* value, and when the limit cuts the result it keeps the earliest deadlines.
C2_DeadlineAscending ==
    (SearchOk /\ result.req.sort = Some("Deadline")) =>
        /\ \A i, j \in 1..Len(Found) :
              (i < j /\ IsSome(Found[i].deadline) /\ IsSome(Found[j].deadline))
                  => TimestampCmp(Unwrap(Found[i].deadline), Unwrap(Found[j].deadline)) <= 0
        /\ \A k \in LeftOut : \A i \in 1..Len(Found) :
              (IsSome(todos[k].deadline) /\ IsSome(Found[i].deadline))
                  => TimestampCmp(Unwrap(Found[i].deadline), Unwrap(todos[k].deadline)) <= 0

\* C3: search with sort = Deadline places every returned record without deadline
\* after every returned record with a deadline, and when the limit cuts the result
\* no record without deadline is kept while a matching record with one is left out.
C3_NoDeadlineLast ==
    (SearchOk /\ result.req.sort = Some("Deadline")) =>
        /\ \A i, j \in 1..Len(Found) :
              (i < j /\ ~IsSome(Found[i].deadline)) => ~IsSome(Found[j].deadline)
        /\ \A k \in LeftOut : \A i \in 1..Len(Found) :
              IsSome(todos[k].deadline) => IsSome(Found[i].deadline)

\* a cut search by deadline that returns a record with a deadline, then one
\* without, and leaves out another record without deadline
C3_Witness ==
    /\ SearchOk
    /\ result.req.sort = Some("Deadline")
    /\ Len(Found) = 2
    /\ IsSome(Found[1].deadline)
    /\ ~IsSome(Found[2].deadline)
    /\ \E k \in LeftOut : ~IsSome(todos[k].deadline)

\* C4: search with sort = Priority returns every High record before any Medium and
\* every Medium before any Low, and when the limit cuts the result no record of
\* lower priority is returned while a matching record of higher priority is left out.
C4_PriorityOrder ==
    (SearchOk /\ result.req.sort = Some("Priority")) =>
        /\ \A i, j \in 1..Len(Found) :
              i < j =>
                  /\ Found[i].priority = "Low" => Found[j].priority = "Low"
                  /\ Found[i].priority = "Medium" => Found[j].priority # "High"
        /\ \A k \in LeftOut : \A i \in 1..Len(Found) :
              /\ todos[k].priority = "High" => Found[i].priority = "High"
              /\ todos[k].priority = "Medium" => Found[i].priority # "Low"

\* a search by priority that returns a High, a Medium and a Low record in this
\* order, the Medium one made so by update
C4_Witness ==
    /\ SearchOk
    /\ result.req.sort = Some("Priority")
    /\ Len(Found) = 3
    /\ Found[1].priority = "High"
    /\ Found[2].priority = "Medium"
    /\ Found[3].priority = "Low"

\* C5: search with sort = Status returns every InProgress record before any Backlog
\* record and every Backlog record before any Done record.
C5_StatusOrder ==
    (SearchOk /\ result.req.sort = Some("Status")) =>
        \A i, j \in 1..Len(Found) :
            i < j =>
                /\ Found[i].status = "Done" => Found[j].status = "Done"
                /\ Found[i].status = "Backlog" => Found[j].status # "InProgress"

\* a search by status that returns an InProgress, a Backlog and a Done record
C5_Witness ==
    /\ SearchOk
    /\ result.req.sort = Some("Status")
    /\ Len(Found) = 3
    /\ Found[1].status = "InProgress"
    /\ Found[2].status = "Backlog"
    /\ Found[3].status = "Done"

\* C6: search with no sort dimension returns records in ascending lexicographic
\* order of title, and when the limit cuts the result it keeps the smallest titles.
C6_TitleOrder ==
    (SearchOk /\ result.req.sort = None) =>
        /\ \A i, j \in 1..Len(Found) :
              i < j => StrCmp(Found[i].title, Found[j].title) # 1
        /\ \A k \in LeftOut : \A i \in 1..Len(Found) :
              StrCmp(Found[i].title, todos[k].title) # 1

\* a cut search by title that returns "a" then "ab" and leaves out "b"
C6_Witness ==
    /\ SearchOk
    /\ result.req.sort = None
    /\ result.req.limit = Some(2)
    /\ Len(Found) = 2
    /\ Found[1].title = StrA
    /\ Found[2].title = StrAB
    /\ \E k \in LeftOut : todos[k].title = StrB

----------------------------------------------------------------------------
(* Claims about the result limit *)

\* C8: result-limit resolution never fails and maps absent or 0 to 10, a value
\* greater than 100 to 100, and a value n with 1 <= n <= 100 to n.
C8_LimitResolution ==
    result.op = "validated" =>
        /\ result.ret.ok
        /\ result.ret.val \in 1..100
        /\ (result.req = None \/ result.req = Some(0)) => result.ret.val = 10
        /\ (IsSome(result.req) /\ Unwrap(result.req) > 100) => result.ret.val = 100
        /\ (IsSome(result.req) /\ Unwrap(result.req) \in 1..100)
              => result.ret.val = Unwrap(result.req)

\* the largest input tried resolves to 100
C8_Witness ==
    /\ result.op = "validated"
    /\ result.req = Some(2147483647)
    /\ result.ret = Ok(100)

----------------------------------------------------------------------------
(* Claims about add and update *)

\* C9: whenever add or update returns an error, the store is exactly as before the
\* call: no record added, no field changed, no last-update timestamp bumped.
C9_AllOrNothing ==
    (result.op \in {"add", "update"} /\ ~result.ret.ok) => todos = result.before

\* an update of a stored record that fails on its title although its priority is
\* valid and differs from the stored one, at a later second than the last change
C9_Witness ==
    /\ result.op = "update"
    /\ result.ret = Err(EmptyTodoTitle)
    /\ result.req.id \in DOMAIN todos
    /\ result.req.change.priority = Some("High")
    /\ todos[result.req.id].priority = "Low"
    /\ todos[result.req.id].updated_timestamp < now

\* C10: on every successful update the stored deadline becomes the resolved deadline
\* of the request, supplied or not; the last-update timestamp is set to the current
\* time whenever the resolved deadline differs from the stored one, and an absent
\* deadline on a record without deadline is no change.
C10_DeadlineOverwritten ==
    (result.op = "update" /\ result.ret.ok) =>
        LET old == result.before[result.req.id]
            new == todos[result.req.id]
            resolved == UnixTime(result.req.change.deadline).val
        IN  /\ new.deadline = resolved
            /\ old.deadline # resolved => new.updated_timestamp = now
            /\ (/\ old.deadline = None
                /\ resolved = None
                /\ new.title = old.title
                /\ new.priority = old.priority
                /\ new.status = old.status) => new = old

\* an update that supplies only a status the record already has, on a record with
\* a deadline: the deadline is cleared and the timestamp moves to the current time
C10_Witness ==
    /\ result.op = "update"
    /\ result.ret.ok
    /\ result.req.change.deadline = None
    /\ result.req.change.title = None
    /\ result.req.change.priority = None
    /\ result.req.change.status = Some(result.before[result.req.id].status)
    /\ IsSome(result.before[result.req.id].deadline)
    /\ todos[result.req.id].deadline = None
    /\ result.before[result.req.id].updated_timestamp < now
    /\ todos[result.req.id].updated_timestamp = now

\* the request of an outstanding update, its fields as the adapter passes them on
UpdateChange ==
    [title |-> IF IsSome(result.req.change.title)
               THEN Some(TitleNew(Unwrap(result.req.change.title))) ELSE None,
     priority |-> result.req.change.priority,
     status |-> result.req.change.status,
     deadline |-> result.req.change.deadline]

\* an outstanding update of a record that was stored, which succeeded
UpdateOk ==
    /\ result.op = "update"
    /\ result.ret.ok
    /\ result.req.id \in DOMAIN result.before

\* C11: an update that supplies only a status returns and stores a record that
\* differs from the previous one in status only: id, title, priority, deadline and
\* creation timestamp are as before, whatever the record's deadline is.
C11_StatusOnly ==
    (/\ UpdateOk
     /\ result.req.change.title = None
     /\ result.req.change.priority = None
     /\ result.req.change.deadline = None
     /\ IsSome(result.req.change.status)) =>
        LET old == result.before[result.req.id]
            new == todos[result.req.id]
        IN  /\ result.ret.val = new
            /\ new.status = Unwrap(result.req.change.status)
            /\ new.id = old.id
            /\ new.title = old.title
            /\ new.priority = old.priority
            /\ new.deadline = old.deadline
            /\ new.created_timestamp = old.created_timestamp

\* C12: an update in which every supplied field (title after trimming, priority,
\* status, deadline) equals the record's current value succeeds, returns the record
\* unmodified and leaves the store, its last-update timestamp included, unchanged.
C12_EqualFieldsNoChange ==
    (/\ result.op = "update"
     /\ result.req.id \in DOMAIN result.before
     /\ ChangeIsPresent(UpdateChange)
     /\ LET old == result.before[result.req.id]
            c == UpdateChange
        IN  /\ IsSome(c.title) => Unwrap(c.title) = old.title
            /\ IsSome(c.priority) => Unwrap(c.priority) = old.priority
            /\ IsSome(c.status) => Unwrap(c.status) = old.status
            /\ DeadlineIsSome(c.deadline) => UnixTime(c.deadline) = Ok(old.deadline)) =>
        /\ result.ret = Ok(result.before[result.req.id])
        /\ todos = result.before

\* some field of the record has another value after the outstanding update
UpdateChanged ==
    LET old == result.before[result.req.id]
        new == todos[result.req.id]
    IN  \/ new.title # old.title
        \/ new.priority # old.priority
        \/ new.status # old.status
        \/ new.deadline # old.deadline

\* get after the outstanding update gives the record returned, with every supplied
\* field at the value supplied and the deadline at the resolved one
GetReflectsUpdate ==
    LET got == GetResult(todos, result.req.id)
        c == UpdateChange
    IN  /\ got = Ok(result.ret.val)
        /\ IsSome(c.title) => got.val.title = Unwrap(c.title)
        /\ IsSome(c.priority) => got.val.priority = Unwrap(c.priority)
        /\ IsSome(c.status) => got.val.status = Unwrap(c.status)
        /\ got.val.deadline = UnixTime(c.deadline).val

\* C13 as stated: when a successful update changes a field, get returns the new
\* value and the last-update timestamp is strictly greater than before the call.
C13_StrictlyGreater ==
    (UpdateOk /\ UpdateChanged) =>
        /\ GetReflectsUpdate
        /\ todos[result.req.id].updated_timestamp
               > result.before[result.req.id].updated_timestamp

\* C13 amended: when a successful update changes a field, get returns the new value
\* and the last-update timestamp is the clock's second at the call, which is not
\* less than the timestamp before (strictly greater in a later second only).
C13_TimestampAtCall ==
    (UpdateOk /\ UpdateChanged) =>
        /\ GetReflectsUpdate
        /\ todos[result.req.id].updated_timestamp = now
        /\ todos[result.req.id].updated_timestamp
               >= result.before[result.req.id].updated_timestamp

\* an update that changes the priority only, a second after the record was added
C13_Witness ==
    /\ UpdateOk
    /\ UpdateChanged
    /\ result.before[result.req.id].priority = "Low"
    /\ todos[result.req.id].priority = "High"
    /\ result.before[result.req.id].updated_timestamp < now
    /\ todos[result.req.id].updated_timestamp = now

\* C14: update with title, priority, status and deadline all absent fails with
\* UpdateHasNoChanges, whether or not the identifier is stored, and leaves the
\* number of records and every record unchanged.
C14_NoChanges ==
    (/\ result.op = "update"
     /\ result.req.change.title = None
     /\ result.req.change.priority = None
     /\ result.req.change.status = None
     /\ result.req.change.deadline = None) =>
        /\ result.ret = Err(UpdateHasNoChanges)
        /\ CountAll(todos) = CountAll(result.before)
        /\ todos = result.before

\* the empty update of a stored record that has a deadline
C14_Witness ==
    /\ result.op = "update"
    /\ ~ChangeIsPresent(result.req.change)
    /\ result.req.id \in DOMAIN todos
    /\ IsSome(todos[result.req.id].deadline)
    /\ result.ret = Err(UpdateHasNoChanges)

\* C15: update with a field present on an identifier that is not stored fails with
\* DateTimeParseError when the deadline supplied is malformed and with
\* TodoNotFound(id) otherwise, whatever the title supplied; the store is unchanged.
C15_NotFoundAfterDeadline ==
    (/\ result.op = "update"
     /\ ChangeIsPresent(result.req.change)
     /\ result.req.id \notin DOMAIN result.before) =>
        /\ result.ret =
              IF UnixTime(result.req.change.deadline).ok
              THEN Err(TodoNotFound(result.req.id))
              ELSE Err(DateTimeParseError(Unwrap(result.req.change.deadline),
                                          USER_DATE_TIME_FORMAT))
        /\ todos = result.before

\* an update with an over-length title and a well-formed deadline on an identifier
\* that is not stored, while another record is
C15_Witness ==
    /\ result.op = "update"
    /\ result.req.id \notin DOMAIN todos
    /\ todos # <<>>
    /\ result.req.change.title = Some(StrTooLong)
    /\ result.req.change.deadline = Some(Date0)
    /\ result.ret = Err(TodoNotFound(result.req.id))

\* C19: when add is given a malformed deadline and a title that is empty or
\* over-length, the error is DateTimeParseError with the deadline as given, never
\* a title error, and nothing is stored.
C19_DeadlineErrorFirst ==
    (/\ result.op = "add"
     /\ ~UnixTime(result.req.deadline).ok
     /\ Len(Trim(result.req.title)) \notin 1..MAX_LEN) =>
        /\ result.ret = Err(DateTimeParseError(Unwrap(result.req.deadline),
                                               USER_DATE_TIME_FORMAT))
        /\ todos = result.before

\* add with the deadline "abc" and a title of MAX_LEN + 1 characters
C19_Witness ==
    /\ result.op = "add"
    /\ result.req.deadline = Some(DateAbc)
    /\ result.req.title = StrTooLong
    /\ result.ret.err.kind = "DateTimeParseError"

\* C16: every successful add stores exactly one new record, so the number of records
\* grows by 1: its status is Backlog, its two timestamps are the current time, its
\* priority the one given, its title the trimmed input and its deadline the resolved
\* input deadline; every record stored before is unchanged.
C16_AddStoresOne ==
    (result.op = "add" /\ result.ret.ok) =>
        LET new == result.ret.val
        IN  /\ new.id \notin DOMAIN result.before
            /\ DOMAIN todos = DOMAIN result.before \cup {new.id}
            /\ CountAll(todos) = CountAll(result.before) + 1
            /\ todos[new.id] = new
            /\ new.status = "Backlog"
            /\ new.created_timestamp = now
            /\ new.updated_timestamp = now
            /\ new.priority = result.req.priority
            /\ new.title = Trim(result.req.title)
            /\ UnixTime(result.req.deadline) = Ok(new.deadline)
            /\ \A i \in DOMAIN result.before : todos[i] = result.before[i]

\* an add with a padded title and a deadline an hour before the epoch, in the
\* second after the start, to a store that holds a record changed before
C16_Witness ==
    /\ result.op = "add"
    /\ result.ret.ok
    /\ result.req.title = StrPaddedB
    /\ result.ret.val.title = StrB
    /\ result.ret.val.deadline = Some(Timestamp(-1, 82800))
    /\ result.ret.val.created_timestamp = 1
    /\ result.ret.val.id = 2
    /\ DOMAIN result.before = {1}
    /\ result.before[1].status = "Done"

\* C17: right after a successful add, get of the identifier returned succeeds with a
\* record equal in every field to the one add returned; likewise after a successful
\* update.
C17_RoundTrip ==
    (result.op \in {"add", "update"} /\ result.ret.ok) =>
        /\ GetResult(todos, result.ret.val.id) = Ok(result.ret.val)
        /\ result.op = "update" => result.ret.val.id = result.req.id

\* an update that changes a record a second after it was added, another record
\* being stored as well
C17_Witness ==
    /\ result.op = "update"
    /\ result.ret.ok
    /\ CountAll(todos) = 2
    /\ result.ret.val # result.before[result.req.id]
    /\ result.ret.val.updated_timestamp > result.ret.val.created_timestamp
    /\ GetResult(todos, result.req.id).ok

\* what the claim says of a call that is given the title `raw`
TitleOutcome(raw, ret) ==
    LET n == Len(Trim(raw))
    IN  /\ n = 0 => ret = Err(EmptyTodoTitle)
        /\ n > 30 => /\ ~ret.ok
                     /\ ret.err.kind = "TooLongTodoTitle"
                     /\ ret.err.expected_len = 30
        /\ n \in 1..30 => ret.ok /\ ret.val.title = Trim(raw)

\* C18: add with a title that is empty after trimming fails with EmptyTodoTitle, with
\* a trimmed title longer than 30 it fails with TooLongTodoTitle carrying
\* expected_len = 30, and a trimmed title of 1 to 30 characters is accepted; the same
\* holds of a title supplied to update on a stored record (the deadline resolving).
C18_TitleValidation ==
    /\ (result.op = "add" /\ UnixTime(result.req.deadline).ok) =>
           TitleOutcome(result.req.title, result.ret)
    /\ (/\ result.op = "update"
        /\ result.req.id \in DOMAIN result.before
        /\ IsSome(result.req.change.title)
        /\ UnixTime(result.req.change.deadline).ok) =>
           TitleOutcome(Unwrap(result.req.change.title), result.ret)

\* an update of a stored record to a padded title of exactly MAX_LEN characters,
\* which is accepted
C18_Witness ==
    /\ result.op = "update"
    /\ result.ret.ok
    /\ Len(Unwrap(result.req.change.title)) = MAX_LEN + 2
    /\ Len(todos[result.req.id].title) = MAX_LEN
    /\ Len(result.before[result.req.id].title) = 1

----------------------------------------------------------------------------
(* Claims about the deletions *)

\* whether the outstanding delete_by_* call targets the record t
Targeted(t) ==
    CASE result.req.by = "ids" -> t.id \in result.req.targets
      [] result.req.by = "priorities" -> t.priority \in result.req.targets
      [] result.req.by \in {"statuses", "status"} -> t.status \in result.req.targets

\* what the outstanding delete_by_* call gives when it is made once more
Repeated ==
    CASE result.req.by = "ids" -> DeleteByIdsResult(todos, result.req.targets)
      [] result.req.by = "priorities" ->
            DeleteByPrioritiesResult(todos, result.req.targets)
      [] result.req.by = "statuses" ->
            DeleteByStatusesResult(todos, result.req.targets)
      [] result.req.by = "status" ->
            DeleteByStatusResult(todos, CHOOSE t \in result.req.targets : TRUE)

\* C21: delete_by_ids, delete_by_priorities, delete_by_statuses and delete_by_status
\* remove exactly the stored records whose id, priority or status is in the target
\* set, leave every other record unchanged and return the number removed, the
\* difference of the counts before and after; the same call made again returns 0.
C21_DeleteBy ==
    result.op = "delete_by" =>
        /\ DOMAIN todos = {i \in DOMAIN result.before : ~Targeted(result.before[i])}
        /\ \A i \in DOMAIN todos : todos[i] = result.before[i]
        /\ result.ret.ok
        /\ result.ret.val = CountAll(result.before) - CountAll(todos)
        /\ result.ret.val =
              Cardinality({i \in DOMAIN result.before : Targeted(result.before[i])})
        /\ Repeated.ret = 0
        /\ Repeated.store = todos

\* delete_by_statuses of Done and InProgress on a store with a Done record and a
\* Backlog record: one record removed, the other kept
C21_Witness ==
    /\ result.op = "delete_by"
    /\ result.req.by = "statuses"
    /\ result.req.targets = {"Done", "InProgress"}
    /\ CountAll(result.before) = 2
    /\ result.ret = Ok(1)
    /\ \E i \in DOMAIN todos : todos[i].status = "Backlog"

\* C22: delete of a stored identifier succeeds and removes exactly that record, after
\* which get and a second delete of it fail with TodoNotFound; delete of an
\* identifier that is not stored fails with TodoNotFound(id) and changes nothing.
C22_Delete ==
    result.op = "delete" =>
        LET id == result.req.id
        IN  IF id \in DOMAIN result.before
            THEN /\ result.ret = Ok(<<>>)
                 /\ DOMAIN todos = DOMAIN result.before \ {id}
                 /\ CountAll(todos) = CountAll(result.before) - 1
                 /\ \A i \in DOMAIN todos : todos[i] = result.before[i]
                 /\ GetResult(todos, id) = Err(TodoNotFound(id))
                 /\ DeleteResult(todos, id).ret = Err(TodoNotFound(id))
            ELSE /\ result.ret = Err(TodoNotFound(id))
                 /\ todos = result.before

\* the second delete of a record, which fails, a changed record being stored
C22_Witness ==
    /\ result.op = "delete"
    /\ result.req.id <= issued
    /\ result.req.id \notin DOMAIN result.before
    /\ result.ret = Err(TodoNotFound(result.req.id))
    /\ \E i \in DOMAIN todos : todos[i].status = "Done"

\* C25 as stated: an identifier that was given to a record and is no longer stored
\* is not stored after any further step, and get and update of it fail with
\* TodoNotFound.
C25_AlwaysNotFound ==
    [][\A id \in 1..issued :
          id \notin DOMAIN todos =>
              /\ id \notin DOMAIN todos'
              /\ (result'.op \in {"get", "update"} /\ result'.req.id = id) =>
                     result'.ret = Err(TodoNotFound(id))]_vars

\* the error of an update of an identifier that is not stored: the update's own
\* faults are reported before the store is looked at
UpdateOfMissing(id, change) ==
    IF change.title = None /\ change.priority = None /\ change.status = None
       /\ change.deadline = None
    THEN Err(UpdateHasNoChanges)
    ELSE IF ~UnixTime(change.deadline).ok
    THEN Err(DateTimeParseError(Unwrap(change.deadline), USER_DATE_TIME_FORMAT))
    ELSE Err(TodoNotFound(id))

\* C25 amended: deletion is terminal: an identifier that was given to a record and
\* is no longer stored is not stored after any further step; get of it fails with
\* TodoNotFound, and update of it fails: with UpdateHasNoChanges when the update
\* names no field, with DateTimeParseError when its deadline does not parse, and
\* with TodoNotFound otherwise.
C25_DeletionTerminal ==
    [][\A id \in 1..issued :
          id \notin DOMAIN todos =>
              /\ id \notin DOMAIN todos'
              /\ (result'.op = "get" /\ result'.req.id = id) =>
                     result'.ret = Err(TodoNotFound(id))
              /\ (result'.op = "update" /\ result'.req.id = id) =>
                     result'.ret = UpdateOfMissing(id, result'.req.change)]_vars

\* an update of a deleted record that fails after another record was added
C25_Witness ==
    /\ result.op = "update"
    /\ result.req.id = 1
    /\ issued = 2
    /\ DOMAIN todos = {2}
    /\ result.ret = Err(TodoNotFound(1))

----------------------------------------------------------------------------
(* Claims about count_by and the loop of search *)

\* whether the record t satisfies the four filters of the outstanding query, the
\* deadline bound being resolved
Satisfies(t) ==
    LET q == result.req
        bound == UnixTime(q.deadline).val
    IN  /\ q.keyword # None =>
               \E a \in 1..(Len(t.title) + 1), b \in 0..Len(t.title) :
                   SubSeq(t.title, a, b) = q.keyword[1]
        /\ q.priority # None => t.priority = q.priority[1]
        /\ q.status # None => t.status = q.status[1]
        /\ bound # None => (t.deadline = None \/ TimestampCmp(t.deadline[1], bound[1]) <= 0)

\* C23: count_by gives the number of stored records that satisfy the keyword,
\* priority, status and deadline predicates together, whatever the query's sort and
\* limit (also above 100); it is count_all() with no filter, and the store is as
\* before.
C23_CountBy ==
    (result.op = "count_by" /\ UnixTime(result.req.deadline).ok) =>
        /\ result.ret.ok
        /\ result.ret.val =
              Cardinality({i \in DOMAIN result.before : Satisfies(result.before[i])})
        /\ (/\ result.req.keyword = None
            /\ result.req.priority = None
            /\ result.req.status = None
            /\ result.req.deadline = None) => result.ret.val = CountAll(result.before)
        /\ todos = result.before

\* count_by with limit 5 and no filter on a store of more than 100 records, of
\* which some differ in status, title and deadline
C23_Witness ==
    /\ result.op = "count_by"
    /\ result.req.limit = Some(5)
    /\ result.req.sort = Some("Priority")
    /\ result.ret = Ok(QUERY_MAX_LIMIT + 1)
    /\ todos[1].status = "Done"
    /\ todos[2].status = "InProgress"

\* C29: during search the heap never holds more records than the resolved limit,
\* which is at least 1, so the heap is not empty when the count has reached the
\* limit and the unreachable branch is never taken.
C29_HeapBounded ==
    /\ result.op = "searching" =>
          /\ scan.top_n >= 1
          /\ Len(scan.acc.heap) <= scan.top_n
          /\ scan.acc.count >= scan.top_n => scan.acc.heap # <<>>
          /\ ~scan.acc.unreachable
    /\ result.op = "search" => result.ret # Err(HeapIsEmpty)

\* a search with limit 0 that has visited more records than the default limit, the
\* last ones with the heap full
C29_Witness ==
    /\ result.op = "searching"
    /\ result.req.limit = Some(0)
    /\ scan.top_n = QUERY_DEFAULT_LIMIT
    /\ scan.rest = {}
    /\ CountAll(todos) > QUERY_DEFAULT_LIMIT
    /\ scan.acc.count = QUERY_DEFAULT_LIMIT
    /\ Len(scan.acc.heap) = QUERY_DEFAULT_LIMIT

----------------------------------------------------------------------------
(* Claims about the deadline filter and the determinism of search *)

\* the records of the store before the outstanding call that pass a deadline bound:
\* all when no bound is set, else those without deadline or with one <= the bound
WithinBound ==
    LET bound == UnixTime(result.req.deadline).val
    IN  {i \in DOMAIN result.before :
            \/ bound = None
            \/ result.before[i].deadline = None
            \/ /\ result.before[i].deadline[1].days <= bound[1].days
               /\ (result.before[i].deadline[1].days = bound[1].days =>
                      result.before[i].deadline[1].secs <= bound[1].secs)}

\* C24: the deadline filter matches every record when no bound is set, and with a
\* bound B the records without deadline and those whose deadline is <= B, B itself
\* included, in search and in count_by.
C24_DeadlineFilter ==
    (/\ result.op \in {"search", "count_by"}
     /\ result.req.keyword = None
     /\ result.req.priority = None
     /\ result.req.status = None
     /\ UnixTime(result.req.deadline).ok) =>
        IF result.op = "count_by"
        THEN result.ret = Ok(Cardinality(WithinBound))
        ELSE /\ result.ret.ok
             /\ FoundIds \subseteq WithinBound
             /\ Len(Found) = Min(LimitValidated(result.req.limit).val,
                                 Cardinality(WithinBound))

\* a search bounded by the deadline 0 over records with no deadline, with the
\* deadline 0 and with the deadline 3600: the first two are returned
C24_Witness ==
    /\ SearchOk
    /\ result.req.deadline = Some(Date0)
    /\ result.req.limit = None
    /\ CountAll(todos) = 3
    /\ Len(Found) = 2
    /\ \E i \in DOMAIN todos : todos[i].deadline = Some(Timestamp(0, 3600))
    /\ \E k \in 1..2 : Found[k].deadline = Some(Timestamp(0, 0))
    /\ \E k \in 1..2 : Found[k].deadline = None

\* the sort key of a record, as SortBy::from takes it
KeyOf(sort, t) ==
    CASE sort = Some("Priority") -> t.priority
      [] sort = Some("Status") -> t.status
      [] sort = Some("Deadline") -> t.deadline
      [] sort = None -> t.title

Keys(sort, found) == [k \in 1..Len(found) |-> KeyOf(sort, found[k])]

\* the identifiers of a set in ascending order
RECURSIVE AscendingOf(_)
AscendingOf(S) ==
    IF S = {} THEN <<>>
    ELSE LET m == CHOOSE x \in S : \A y \in S : x <= y
         IN  <<m>> \o AscendingOf(S \ {m})

\* C30: for a store and a query, the sequence of sort keys search returns is the
\* same for every order in which the records are visited: it is the one of the
\* visit in ascending order of identifier.
C30_KeysDeterministic ==
    SearchOk =>
        LET byId == SearchResult(todos, result.req,
                                 AscendingOf(Matching(todos, result.req)))
        IN  /\ byId.ok
            /\ Keys(result.req.sort, Found) = Keys(result.req.sort, byId.val)

\* a search whose records are not those of the visit in ascending order of
\* identifier, the keys being the same
C30_Witness ==
    /\ SearchOk
    /\ CountAll(todos) = 3
    /\ Found # SearchResult(todos, result.req,
                            AscendingOf(Matching(todos, result.req))).val

----------------------------------------------------------------------------
(* Claims about what every stored record keeps *)

\* the records stored before and after the outstanding call
Kept == IF result.op = "none" THEN {} ELSE DOMAIN todos \cap DOMAIN result.before

\* C26: every stored record's last-update timestamp is >= its creation timestamp,
\* and no operation decreases the last-update timestamp of a stored record, the
\* clock never going backwards.
C26_TimestampsAdvance ==
    /\ \A i \in DOMAIN todos :
          todos[i].updated_timestamp >= todos[i].created_timestamp
    /\ \A i \in Kept :
          todos[i].updated_timestamp >= result.before[i].updated_timestamp

\* an update, in the second after the record was added and changed, that changes
\* it once more
C26_Witness ==
    /\ result.op = "update"
    /\ result.ret.ok
    /\ now = 1
    /\ result.before[result.req.id].created_timestamp = 0
    /\ result.before[result.req.id].updated_timestamp = 1
    /\ todos[result.req.id] # result.before[result.req.id]
    /\ todos[result.req.id].updated_timestamp = 1

\* C27: a stored record keeps the identifier and the creation timestamp add gave it
\* through every update, the key it is stored under is its identifier, and update
\* changes neither the number of records nor the set of identifiers stored.
C27_IdentityKept ==
    /\ \A i \in DOMAIN todos : todos[i].id = i
    /\ \A i \in Kept :
          /\ todos[i].id = result.before[i].id
          /\ todos[i].created_timestamp = result.before[i].created_timestamp
    /\ result.op = "update" =>
          /\ DOMAIN todos = DOMAIN result.before
          /\ CountAll(todos) = CountAll(result.before)

\* an update with all four fields that changes a record a second after it was added
C27_Witness ==
    /\ result.op = "update"
    /\ result.ret.ok
    /\ IsSome(result.req.change.title)
    /\ IsSome(result.req.change.priority)
    /\ IsSome(result.req.change.status)
    /\ IsSome(result.req.change.deadline)
    /\ todos[result.req.id].title # result.before[result.req.id].title
    /\ todos[result.req.id].created_timestamp = 0
    /\ todos[result.req.id].updated_timestamp = 1

\* C28: in every state, after add, update and delete calls that succeeded or failed,
\* every stored title is non-empty, has no whitespace at either end and has at most
\* 30 characters.
C28_TitleWellFormed ==
    \A i \in DOMAIN todos :
        LET title == todos[i].title
        IN  /\ Len(title) >= 1
            /\ Len(title) <= 30
            /\ title[1] \notin {9, 10, 11, 12, 13, 32}
            /\ title[Len(title)] \notin {9, 10, 11, 12, 13, 32}

\* a record whose title of 30 characters was given padded, after an update of it
\* with a title of 31 characters failed
C28_Witness ==
    /\ result.op = "update"
    /\ result.ret.err.kind = "TooLongTodoTitle"
    /\ result.req.id \in DOMAIN todos
    /\ Len(todos[result.req.id].title) = MAX_LEN
    /\ Len(Unwrap(result.req.change.title)) = MAX_LEN + 1

====
